---- MODULE Spec2Model ----
(***************************************************************************)
(* Model of hlo_legalize_to_arithmetic.cc: the conversion pattern that     *)
(* lowers mhlo.xla.rng_get_and_update_state to a memref.global counter     *)
(* with a load / add / store update and a shift-and-truncate packing of    *)
(* the pre-update value, the pass that drives it, and the execution of     *)
(* the emitted instructions.                                               *)
(*                                                                         *)
(* Specifications: Spec (the pass, then @main on one thread), SpecPack     *)
(* (one request of every shape that fits the counter), SpecWide (requests  *)
(* wider than the counter), SpecPlace (requests at several positions and   *)
(* depths), SpecThreads (the emitted sequences on several threads) and     *)
(* SpecParallel (matchAndRewrite run by several workers side by side).     *)
(*                                                                         *)
(* Integers of the lowered program are bit vectors: a value of width w is  *)
(* a sequence of w bits, least significant bit first.  (TLC's integers     *)
(* are 32 bits wide; the counter is 128 bits wide.)                        *)
(***************************************************************************)
EXTENDS Integers, Sequences, FiniteSets, TLC

(***************************************************************************)
(* Bounds of the model.                                                    *)
(***************************************************************************)
\* Largest number of requests in one module.
MaxRequests == 2

\* Largest number of word accesses that the threads of one run need for one
\* load of the counter each.
MaxWordAccesses == 8

(***************************************************************************)
(* Program constants.                                                      *)
(***************************************************************************)
\* rewriter.getIntegerType(128): the width of the counter.
seedWidth == 128
\* constexpr auto initialSeed = 0x7012395ull
initialSeed == 117515157
\* The width of the delta attribute and of the int64_t it is cast to.
deltaWidth == 64
\* rewriter.getStringAttr("rng_state")
globalName == "rng_state"

(***************************************************************************)
(* Bit vectors.                                                            *)
(***************************************************************************)
Bit == {0, 1}

\* The w-bit vector whose k lowest bits are b and whose other bits are 0.
LowBits(k, b, w) == [j \in 1..w |-> IF j <= k THEN b ELSE 0]

Zeros(w) == LowBits(0, 0, w)

\* The w-bit vector of a natural number below 2^31 (APInt(w, n)).
ToBits(n, w) == [j \in 1..w |-> IF j <= 31 THEN (n \div (2 ^ (j - 1))) % 2 ELSE 0]

\* v with bit number pos (counted from 0) inverted.
FlipBit(v, pos) == [j \in 1..Len(v) |-> IF j = pos + 1 THEN 1 - v[j] ELSE v[j]]

\* Zero extension (or truncation) of v to w bits.
ZExt(v, w) == [j \in 1..w |-> IF j <= Len(v) THEN v[j] ELSE 0]

\* Sign extension of v to w bits.
SExt(v, w) == [j \in 1..w |-> IF j <= Len(v) THEN v[j] ELSE v[Len(v)]]

\* The number that bits lo..hi of v stand for (at most 30 bits; a bit beyond
\* the length of v is 0).  The range is split in halves.
RECURSIVE BitsValue(_, _, _)
BitsValue(v, lo, hi) ==
    IF lo > hi THEN 0
    ELSE IF lo = hi THEN (IF lo <= Len(v) THEN v[lo] ELSE 0)
    ELSE BitsValue(v, lo, (lo + hi) \div 2)
         + (2 ^ ((lo + hi) \div 2 - lo + 1)) * BitsValue(v, (lo + hi) \div 2 + 1, hi)

\* The number a bit vector stands for, if it is below 2^30.
BitsToNat(v) == BitsValue(v, 1, 30)

\* Whether a bit is set at a position that BitsToNat does not read.
HasHighBits(v) == \E j \in 1..Len(v) : j > 30 /\ v[j] = 1

\* The concatenation of a sequence of sequences, from lo to hi, split in halves.
RECURSIVE FlatRange(_, _, _)
FlatRange(seqs, lo, hi) ==
    IF lo > hi THEN <<>>
    ELSE IF lo = hi THEN seqs[lo]
    ELSE FlatRange(seqs, lo, (lo + hi) \div 2)
         \o FlatRange(seqs, (lo + hi) \div 2 + 1, hi)

Flat(seqs) == FlatRange(seqs, 1, Len(seqs))

(***************************************************************************)
(* The arithmetic of the emitted instructions.                             *)
(***************************************************************************)
\* Addition in words of 16 bits, least significant word first, with the carry
\* passed on: the sums of words d.. of a and b, each below 2^16.
RECURSIVE AddWords(_, _, _, _)
AddWords(a, b, d, carry) ==
    IF 16 * (d - 1) >= Len(a) THEN <<>>
    ELSE LET sum == BitsValue(a, 16 * d - 15, 16 * d)
                    + BitsValue(b, 16 * d - 15, 16 * d) + carry IN
         <<sum % 65536>> \o AddWords(a, b, d + 1, sum \div 65536)

\* arith.addi: two's complement addition, which wraps at 2^Len(a).
EvalAddI(a, b) ==
    LET words == AddWords(a, b, 1, 0) IN
    [j \in 1..Len(a) |-> (words[(j - 1) \div 16 + 1] \div (2 ^ ((j - 1) % 16))) % 2]

\* v shifted right by n bits, the high bits filled with zeros.
ShiftRightLogical(v, n) ==
    [j \in 1..Len(v) |-> IF j + n <= Len(v) THEN v[j + n] ELSE 0]

\* A result of n bits that is not defined.  None of its bits is 0 or 1: it
\* stands for whatever bit pattern the build leaves there (the content of a
\* register or of a stack slot), and what is computed from its bits is as
\* little defined.
Poison(n) == [j \in 1..n |-> -1]

\* arith.shrui: the results the instruction can produce.  A shift by the
\* width or more has no defined result: the build may fold it to 0, shift by
\* the distance modulo the width as the machine's shift does, or leave any
\* other bit pattern.
EvalShRUI(v, amount) ==
    IF ~HasHighBits(amount) /\ BitsToNat(amount) < Len(v)
    THEN {ShiftRightLogical(v, BitsToNat(amount))}
    ELSE IF ~HasHighBits(amount)
    THEN {Zeros(Len(v)), ShiftRightLogical(v, BitsToNat(amount) % Len(v)),
          Poison(Len(v))}
    ELSE {Zeros(Len(v)), Poison(Len(v))}

\* A variant of EvalTruncI: the high w bits are kept.
EvalTruncI_HighBits(v, w) ==
    IF w < Len(v) THEN {[j \in 1..w |-> v[Len(v) - w + j]]} ELSE {}

\* arith.trunci: the results the instruction can produce: the low w bits.  The
\* result type must be narrower than the operand's; a truncation to the same
\* or a greater width is no valid instruction and produces nothing, whatever
\* the operand.  The low bits of an undefined operand are undefined.
EvalTruncI(v, w) ==
    IF w < Len(v) THEN {[j \in 1..w |-> v[j]]} ELSE {}

(***************************************************************************)
(* Instructions.  Every instruction is a record of the same shape:         *)
(*   kind      the instruction kind                                        *)
(*   site      the request it belongs to (0: it was in the input module)   *)
(*   role, idx name its result within the site: the value [site, role,     *)
(*             idx] is the result of the instruction with these fields     *)
(*   name, visibility, width, count, value   attributes                    *)
(*   operands  the values it reads                                         *)
(*   body      the instructions of its region                              *)
(***************************************************************************)
Ref(site, role, idx) == [site |-> site, role |-> role, idx |-> idx]

ResultOf(op) == Ref(op.site, op.role, op.idx)

Op(kind, site, role, idx, operands) ==
    [kind |-> kind, site |-> site, role |-> role, idx |-> idx,
     name |-> "", visibility |-> "", width |-> 0, count |-> 0, value |-> <<>>,
     operands |-> operands, body |-> <<>>]

RequestKind == "mhlo.xla.rng_get_and_update_state"

\* The instruction to lower: delta is its 64-bit attribute, the result type
\* has numElements elements of wordSize bits.
RequestOp(id, delta, numElements, wordSize) ==
    [Op(RequestKind, id, "request", 0, <<>>)
        EXCEPT !.value = delta, !.count = numElements, !.width = wordSize]

\* memref.global "private" @rng_state : memref<i128> = dense<initialSeed>
GlobalOp(site, symName, visibility, width, initialValue) ==
    [Op("memref.global", site, "global", 0, <<>>)
        EXCEPT !.name = symName, !.visibility = visibility, !.width = width,
               !.value = initialValue]

FuncOp(symName, body) ==
    [Op("func.func", 0, symName, 0, <<>>) EXCEPT !.name = symName, !.body = body]

RegionOp(idx, body) ==
    [Op("scf.execute_region", 0, "region", idx, <<>>) EXCEPT !.body = body]

\* An instruction of a legal dialect that reads the result of request id.
UserOp(idx, id) == Op("tensor.extract", 0, "user", idx, <<Ref(id, "request", 0)>>)

\* The instructions that define a symbol of the enclosing symbol table.
IsSymbol(op) == op.kind \in {"memref.global", "func.func"}

\* The dialect an instruction kind belongs to.
Dialect(kind) ==
    CASE kind \in {"arith.constant", "arith.addi", "arith.shrui", "arith.trunci"} -> "arith"
      [] kind \in {"memref.global", "memref.get_global", "memref.load", "memref.store"} -> "memref"
      [] kind \in {"tensor.from_elements", "tensor.extract"} -> "tensor"
      [] kind = "builtin.unrealized_conversion_cast" -> "builtin"
      [] kind = RequestKind -> "mhlo"
      [] kind = "func.func" -> "func"
      [] OTHER -> "scf"

\* A variant of IsIllegal: no instruction kind is declared illegal.
IsIllegal_None(op) == FALSE

\* target.addIllegalOp<XlaRngGetAndUpdateStateOp>()
IsIllegal(op) == op.kind = RequestKind

\* target.addLegalDialect<arith, builtin, memref, tensor>()
IsLegal(op) == Dialect(op.kind) \in {"arith", "builtin", "memref", "tensor"}

IsGlobalOp(op) == op.kind = "memref.global"

(***************************************************************************)
(* The instructions one request is lowered to.                             *)
(***************************************************************************)
\* A variant of DeltaAttr: the int64_t is sign-extended to the seed width.
DeltaAttr_SignExtended(delta) == SExt(delta, seedWidth)

\* static_cast<int64_t>(adaptor.delta()) handed to getIntegerAttr(seedType, _):
\* seedType is signless, so the 64 bits are zero-extended to the seed width.
DeltaAttr(delta) == ZExt(delta, seedWidth)

\* A variant of EmitUpdate: the store writes back the loaded value.
EmitUpdate_StoreOld(req) ==
    LET s == req.site IN
    << [Op("memref.get_global", s, "rngState", 0, <<>>)
           EXCEPT !.name = globalName, !.width = seedWidth],
       Op("memref.load", s, "oldVal", 0, <<Ref(s, "rngState", 0)>>),
       [Op("arith.constant", s, "delta", 0, <<>>)
           EXCEPT !.value = ZExt(req.value, seedWidth), !.width = seedWidth],
       Op("arith.addi", s, "newVal", 0, <<Ref(s, "oldVal", 0), Ref(s, "delta", 0)>>),
       Op("memref.store", s, "store", 0, <<Ref(s, "oldVal", 0), Ref(s, "rngState", 0)>>) >>

\* "Get and update": get_global, load, constant delta, addi, store.
EmitUpdate(req) ==
    LET s == req.site IN
    << [Op("memref.get_global", s, "rngState", 0, <<>>)
           EXCEPT !.name = globalName, !.width = seedWidth],
       Op("memref.load", s, "oldVal", 0, <<Ref(s, "rngState", 0)>>),
       [Op("arith.constant", s, "delta", 0, <<>>)
           EXCEPT !.value = DeltaAttr(req.value), !.width = seedWidth],
       Op("arith.addi", s, "newVal", 0, <<Ref(s, "oldVal", 0), Ref(s, "delta", 0)>>),
       Op("memref.store", s, "store", 0, <<Ref(s, "newVal", 0), Ref(s, "rngState", 0)>>) >>

\* A variant of LoopStart: the loop starts one element too high.
LoopStart_OneTooHigh(numElements, wordSize) == numElements * wordSize

\* The first value of the packing loop's variable.
LoopStart(numElements, wordSize) == (numElements - 1) * wordSize

\* A variant of EmitPack: the loop runs upwards from 0, so the least
\* significant piece is pushed first.
RECURSIVE PackLoopUp(_, _, _, _, _)
PackLoopUp(s, i, last, wordSize, j) ==
    IF i <= last
    THEN << [Op("arith.constant", s, "shiftDistance", j, <<>>)
                EXCEPT !.value = ToBits(i, seedWidth), !.width = seedWidth],
            Op("arith.shrui", s, "shifted", j,
               <<Ref(s, "oldVal", 0), Ref(s, "shiftDistance", j)>>),
            [Op("arith.trunci", s, "piece", j, <<Ref(s, "shifted", j)>>)
                EXCEPT !.width = wordSize] >>
         \o PackLoopUp(s, i + wordSize, last, wordSize, j + 1)
    ELSE <<>>

EmitPack_Ascending(req) ==
    PackLoopUp(req.site, 0, (req.count - 1) * req.width, req.width, 0)

\* A variant of PackLoop: the shifts read the sum the store wrote.
RECURSIVE PackLoop_ReadsNewVal(_, _, _, _)
PackLoop_ReadsNewVal(s, i, wordSize, j) ==
    IF i >= 0
    THEN << [Op("arith.constant", s, "shiftDistance", j, <<>>)
                EXCEPT !.value = ToBits(i, seedWidth), !.width = seedWidth],
            Op("arith.shrui", s, "shifted", j,
               <<Ref(s, "newVal", 0), Ref(s, "shiftDistance", j)>>),
            [Op("arith.trunci", s, "piece", j, <<Ref(s, "shifted", j)>>)
                EXCEPT !.width = wordSize] >>
         \o PackLoop_ReadsNewVal(s, i - wordSize, wordSize, j + 1)
    ELSE <<>>

\* The packing loop from i down to 0 in steps of wordSize; iteration number j
\* emits the shift distance, the shift of oldVal and its truncation.
RECURSIVE PackLoop(_, _, _, _)
PackLoop(s, i, wordSize, j) ==
    IF i >= 0
    THEN << [Op("arith.constant", s, "shiftDistance", j, <<>>)
                EXCEPT !.value = ToBits(i, seedWidth), !.width = seedWidth],
            Op("arith.shrui", s, "shifted", j,
               <<Ref(s, "oldVal", 0), Ref(s, "shiftDistance", j)>>),
            [Op("arith.trunci", s, "piece", j, <<Ref(s, "shifted", j)>>)
                EXCEPT !.width = wordSize] >>
         \o PackLoop(s, i - wordSize, wordSize, j + 1)
    ELSE <<>>

\* A variant of EmitPack: the loop body runs before its condition is tested,
\* so it runs at least once.
EmitPack_AtLeastOnce(req) ==
    PackLoop(req.site,
             IF LoopStart(req.count, req.width) < 0 THEN 0
             ELSE LoopStart(req.count, req.width),
             req.width, 0)

\* A variant of EmitPack: the chunks whose shift would reach the seed width
\* are left out.
EmitPack_InRange(req) ==
    LET start == LoopStart(req.count, req.width) IN
    PackLoop(req.site,
             IF start < seedWidth THEN start
             ELSE start - req.width * ((start - seedWidth) \div req.width + 1),
             req.width, 0)

EmitPack(req) == PackLoop(req.site, LoopStart(req.count, req.width), req.width, 0)

\* The pieces, in the order the loop pushed them.
Pieces(ops) ==
    LET IsPiece(op) == op.kind = "arith.trunci"
        truncs == SelectSeq(ops, IsPiece) IN
    [j \in 1..Len(truncs) |-> ResultOf(truncs[j])]

\* tensor.from_elements of the pieces, and the cast that replaces the request.
EmitResult(req, packOps) ==
    << [Op("tensor.from_elements", req.site, "resultTensor", 0, Pieces(packOps))
           EXCEPT !.width = req.width, !.count = req.count],
       [Op("builtin.unrealized_conversion_cast", req.site, "cast", 0,
           <<Ref(req.site, "resultTensor", 0)>>)
           EXCEPT !.width = req.width, !.count = req.count] >>

\* Everything matchAndRewrite creates at the insertion point, in creation order.
EmitLowering(req) ==
    EmitUpdate(req) \o EmitPack(req) \o EmitResult(req, EmitPack(req))

(***************************************************************************)
(* The module: the instructions of its top-level block.  The module is the *)
(* nearest symbol table of every instruction nested in it.                 *)
(***************************************************************************)
\* Every instruction of a block and of the regions nested in it, in pre-order.
RECURSIVE AllOps(_)
AllOps(ops) == Flat([j \in 1..Len(ops) |-> <<ops[j]>> \o AllOps(ops[j].body)])

Range(seq) == {seq[j] : j \in 1..Len(seq)}

\* The requests that are still in the module.
RequestsIn(top) == {op \in Range(AllOps(top)) : op.kind = RequestKind}

\* SymbolTable::lookupNearestSymbolFrom(op, globalName): the position in the
\* module's block of the symbol with that name, 0 (a null pointer) if none.
LookupNearestSymbolFrom(top, symName) ==
    IF \E j \in 1..Len(top) : IsSymbol(top[j]) /\ top[j].name = symName
    THEN CHOOSE j \in 1..Len(top) :
             /\ IsSymbol(top[j]) /\ top[j].name = symName
             /\ \A k \in 1..(j - 1) : ~(IsSymbol(top[k]) /\ top[k].name = symName)
    ELSE 0

\* A variant of NewGlobal: the definition is created with public visibility.
NewGlobal_Public(site) ==
    GlobalOp(site, globalName, "public", seedWidth, ToBits(initialSeed, seedWidth))

\* A variant of NewGlobal: the initial value depends on the request that
\* created the definition.
NewGlobal_SiteSeed(site) ==
    GlobalOp(site, globalName, "private", seedWidth, ToBits(initialSeed + site, seedWidth))

\* The definition created when the lookup finds nothing (lines 65-71).
NewGlobal(site) ==
    GlobalOp(site, globalName, "private", seedWidth, ToBits(initialSeed, seedWidth))

\* A variant of EnsureGlobal: the definition is created without a lookup.
EnsureGlobal_NoLookup(top, site) == <<GlobalOp(site, globalName, "private", seedWidth,
                                               ToBits(initialSeed, seedWidth))>> \o top

\* A variant of EnsureGlobal: the definition is created just before the
\* function that holds the request.
EnsureGlobal_BeforeFunction(top, site) ==
    IF LookupNearestSymbolFrom(top, globalName) = 0
    THEN LET at == CHOOSE j \in 1..Len(top) :
                       \E op \in Range(AllOps(<<top[j]>>)) :
                           op.kind = RequestKind /\ op.site = site IN
         SubSeq(top, 1, at - 1) \o <<NewGlobal(site)>> \o SubSeq(top, at, Len(top))
    ELSE top

\* "Get or define the global variable": the block with the definition created
\* at its start if the lookup found nothing.
EnsureGlobal(top, site) ==
    IF LookupNearestSymbolFrom(top, globalName) = 0
    THEN <<NewGlobal(site)>> \o top
    ELSE top

\* A variant of InsertionPointAfterGuard: the insertion point stays where the
\* creation of the definition moved it.
InsertionPointAfterGuard_Start == "start"

\* Where the rewriter inserts once the InsertionGuard has gone out of scope:
\* "op", before the request, which is where it inserted on entry.
InsertionPointAfterGuard == "op"

\* A variant of ReplaceUses: the uses are left on the request's result.
ReplaceUses_Kept(operands, site) == operands

\* replaceOp: uses of the request's result become uses of the cast's result.
ReplaceUses(operands, site) ==
    [j \in 1..Len(operands) |->
        IF operands[j] = Ref(site, "request", 0)
        THEN Ref(site, "cast", 0) ELSE operands[j]]

\* The block with request `site` replaced: its uses are rewired, the request is
\* erased, and `atOp` is put where the request stood.
RECURSIVE ReplaceOp(_, _, _)
ReplaceOp(ops, site, atOp) ==
    Flat([j \in 1..Len(ops) |->
             IF ops[j].kind = RequestKind /\ ops[j].site = site
             THEN atOp
             ELSE << [ops[j] EXCEPT !.operands = ReplaceUses(ops[j].operands, site),
                                    !.body = ReplaceOp(ops[j].body, site, atOp)] >>])

\* The module after the new instructions have been created at insertion point
\* ip and the request has been replaced.
InsertAndReplace(top, site, ip, newOps) ==
    IF ip = "op"
    THEN ReplaceOp(top, site, newOps)
    ELSE <<Head(top)>> \o newOps \o ReplaceOp(Tail(top), site, <<>>)

\* The request with this id.
RequestOf(top, site) == CHOOSE op \in RequestsIn(top) : op.site = site

\* assert(isa<memref::GlobalOp>(globalOp)): whether the assertion stops the
\* process.  A build with NDEBUG compiles the assertion out.
AssertionFires(top, noDebug) ==
    /\ ~noDebug
    /\ ~IsGlobalOp(top[LookupNearestSymbolFrom(top, globalName)])

\* The module matchAndRewrite leaves when it returns.
Rewritten(top, site) ==
    InsertAndReplace(EnsureGlobal(top, site), site, InsertionPointAfterGuard,
                     EmitLowering(RequestOf(top, site)))

\* applyPartialConversion fails when an illegal instruction is left that no
\* pattern rewrote, or when a pattern reported failure.
ConversionFailed(top, returned) ==
    \/ \E op \in Range(AllOps(top)) : IsIllegal(op)
    \/ \E s \in DOMAIN returned : returned[s] = "failure"

\* The symbol use of memref.get_global is valid: rng_state names a
\* memref.global of the type the get_global was created with.
SymbolUsesValid(top) ==
    LET j == LookupNearestSymbolFrom(top, globalName) IN
    /\ j # 0
    /\ IsGlobalOp(top[j])
    /\ top[j].width = seedWidth

\* Every arith.trunci of the module is a valid instruction: its result type is
\* narrower than its operand's, the seed type.  A module with a truncation
\* that is not valid does not pass verification and is not run.
TruncationsValid(top) ==
    \A op \in Range(AllOps(top)) : op.kind = "arith.trunci" => op.width < seedWidth

\* The instructions of @main in execution order: every region is entered once.
RECURSIVE Flatten(_)
Flatten(ops) ==
    Flat([j \in 1..Len(ops) |->
             IF ops[j].body # <<>> THEN Flatten(ops[j].body) ELSE <<ops[j]>>])

MainBody(top) == top[LookupNearestSymbolFrom(top, "main")].body

Program(top) == Flatten(MainBody(top))

\* The instructions of request s that are in ops, in order: what the lowering
\* of s created at its insertion point, or the request itself.
OfSite(ops, s) ==
    LET Belongs(op) == op.site = s /\ ~IsSymbol(op) IN SelectSeq(ops, Belongs)

(***************************************************************************)
(* Execution of the lowered program.                                       *)
(***************************************************************************)
\* The values an instruction can produce from the values e of its operands and
\* the counter's storage m.
ExecResults(op, e, m) ==
    CASE op.kind = "memref.get_global" -> {<<op.name>>}
      [] op.kind = "memref.load" -> {m}
      [] op.kind = "arith.constant" -> {op.value}
      [] op.kind = "arith.addi" -> {EvalAddI(e[op.operands[1]], e[op.operands[2]])}
      [] op.kind = "arith.shrui" -> EvalShRUI(e[op.operands[1]], e[op.operands[2]])
      [] op.kind = "arith.trunci" -> EvalTruncI(e[op.operands[1]], op.width)
      [] op.kind = "tensor.from_elements" ->
             {[j \in 1..Len(op.operands) |-> e[op.operands[j]]]}
      [] op.kind = "builtin.unrealized_conversion_cast" -> {e[op.operands[1]]}
      [] OTHER -> {<<>>}

\* A variant of ExecStore: the store adds the request's delta to what the
\* counter holds at that moment, as an atomic read-modify-write would.
ExecStore_AtomicAdd(op, e, m) ==
    IF op.kind = "memref.store" THEN EvalAddI(m, e[Ref(op.site, "delta", 0)]) ELSE m

\* The counter's storage after the instruction.
ExecStore(op, e, m) ==
    IF op.kind = "memref.store" THEN e[op.operands[1]] ELSE m

(***************************************************************************)
(* Inputs.                                                                 *)
(***************************************************************************)
\* 2^128 - 2^64: a counter that the second of two additions can wrap.
HighOnes == [j \in 1..seedWidth |-> IF j > deltaWidth THEN 1 ELSE 0]

\* What the input module holds under the name rng_state: nothing, a symbol
\* that is no memref.global, or a memref.global.
PreExisting ==
    { <<>>,
      <<FuncOp(globalName, <<>>)>>,
      <<GlobalOp(0, globalName, "private", seedWidth, ToBits(initialSeed, seedWidth))>>,
      <<GlobalOp(0, globalName, "public", seedWidth, HighOnes)>>,
      <<GlobalOp(0, globalName, "private", deltaWidth, ToBits(initialSeed, deltaWidth))>>,
      <<GlobalOp(0, globalName, "private", seedWidth, LowBits(seedWidth, 1, seedWidth))>> }

\* The requests of the input: delta (64 bits), element count, element width.
RequestShapes ==
    { [delta |-> ToBits(5, deltaWidth), count |-> 2, width |-> 64],
      [delta |-> LowBits(32, 1, deltaWidth), count |-> 1, width |-> 128],
      [delta |-> LowBits(deltaWidth, 1, deltaWidth), count |-> 4, width |-> 32],
      [delta |-> ToBits(1, deltaWidth), count |-> 0, width |-> 8] }

\* Request id of @main: directly in the function's block, or in a nested region.
Placed(id, shape, nested) ==
    LET req == RequestOp(id, shape.delta, shape.count, shape.width) IN
    IF nested THEN RegionOp(id, <<req>>) ELSE req

\* The input module: what rng_state names, then @main with requests 1..k in
\* program order, followed by an instruction that reads the result of request 1.
InputModule(pre, k, shapes, nested) ==
    pre \o << FuncOp("main",
                     [id \in 1..k |-> Placed(id, shapes[id], nested[id])]
                     \o <<UserOp(1, 1)>>) >>

(***************************************************************************)
(* State.                                                                  *)
(***************************************************************************)
VARIABLES
    input,    \* the module as it was handed to the pass
    module,   \* the module: the instructions of its top-level block
    ndebug,   \* whether the build compiles assertions out
    current,  \* the request the engine is legalizing, 0 if none
    results,  \* per request, what matchAndRewrite returned ("none" before)
    pass,     \* "running", "success", "failure", or "aborted" by an assertion
    pc,       \* the next instruction of @main to execute, 0 before the run
    mem,      \* the storage of the global rng_state
    env,      \* the values computed so far, by the instruction that defined them
    workers,  \* per request lowered by a worker of its own: where the worker stands
    threads   \* per thread of a concurrent run: the next instruction of its sequence

vars == <<input, module, ndebug, current, results, pass, pc, mem, env, workers, threads>>

\* No worker and no thread: the engine lowers one request at a time, and one
\* thread runs @main.
None == [w \in {} |-> 0]

NoValues == [r \in {} |-> <<>>]

InitWith(top, noDebug) ==
    /\ input = top
    /\ module = top
    /\ ndebug = noDebug
    /\ current = 0
    /\ results = [op \in {o.site : o \in RequestsIn(top)} |-> "none"]
    /\ pass = "running"
    /\ pc = 0
    /\ mem = <<>>
    /\ env = NoValues
    /\ workers = None
    /\ threads = None

\* The builds and the inputs they are run on: a build with assertions on
\* every input, a build without them (NDEBUG) on the inputs where rng_state is
\* absent or is no memref.global.
Configurations ==
    {[pre |-> p, noDebug |-> FALSE] : p \in PreExisting}
    \cup {[pre |-> p, noDebug |-> TRUE] : p \in {<<>>, <<FuncOp(globalName, <<>>)>>}}

\* Requests are alternately nested in a region and not, starting either way.
Init ==
    \E config \in Configurations, k \in 1..MaxRequests, nestFirst \in BOOLEAN :
    \E shapes \in [1..k -> RequestShapes] :
        InitWith(InputModule(config.pre, k, shapes,
                             [id \in 1..k |-> (id % 2 = 1) = nestFirst]),
                 config.noDebug)

(***************************************************************************)
(* The pass.                                                               *)
(***************************************************************************)
\* The engine finds an illegal instruction and hands it to the pattern that is
\* registered for its kind (target.addIllegalOp, patterns->add).
Legalize(site) ==
    /\ pass = "running"
    /\ current = 0
    /\ \E op \in Range(AllOps(module)) : IsIllegal(op) /\ op.site = site
    /\ current' = site
    /\ UNCHANGED <<input, module, ndebug, results, pass, pc, mem, env, workers, threads>>

\* RngGetAndUpdateStatePattern::matchAndRewrite on the current request.
MatchAndRewrite ==
    /\ pass = "running"
    /\ current # 0
    /\ IF AssertionFires(EnsureGlobal(module, current), ndebug)
       THEN /\ pass' = "aborted"
            /\ UNCHANGED <<module, current, results>>
       ELSE /\ module' = Rewritten(module, current)
            /\ results' = [results EXCEPT ![current] = "success"]
            /\ current' = 0
            /\ pass' = pass
    /\ UNCHANGED <<input, ndebug, pc, mem, env, workers, threads>>

\* runOnOperation, once applyPartialConversion has returned:
\* if (failed(...)) signalPassFailure().
RunOnOperation ==
    /\ pass = "running"
    /\ current = 0
    /\ \A op \in Range(AllOps(module)) : IsIllegal(op) => results[op.site] # "none"
    /\ pass' = IF ConversionFailed(module, results) THEN "failure" ELSE "success"
    /\ UNCHANGED <<input, module, ndebug, current, results, pc, mem, env, workers, threads>>

(***************************************************************************)
(* The lowered program.                                                    *)
(***************************************************************************)
\* The program starts: the global holds its initial value.
StartProgram ==
    /\ pass = "success"
    /\ SymbolUsesValid(module)
    /\ TruncationsValid(module)
    /\ pc = 0
    /\ pc' = 1
    /\ mem' = module[LookupNearestSymbolFrom(module, globalName)].value
    /\ UNCHANGED <<input, module, ndebug, current, results, pass, env, workers, threads>>

\* One instruction of @main executes.
ExecStep ==
    /\ pc >= 1
    /\ pc <= Len(Program(module))
    /\ \E op \in {Program(module)[pc]} :
       \E v \in ExecResults(op, env, mem) :
           /\ env' = (ResultOf(op) :> v) @@ env
           /\ mem' = ExecStore(op, env, mem)
    /\ pc' = pc + 1
    /\ UNCHANGED <<input, module, ndebug, current, results, pass, workers, threads>>

Next ==
    \/ \E site \in 1..MaxRequests : Legalize(site)
    \/ MatchAndRewrite
    \/ RunOnOperation
    \/ StartProgram
    \/ ExecStep

Spec == Init /\ [][Next]_vars

(***************************************************************************)
(* The packing on its own: one request of every shape with N*E <= 128 in a *)
(* module whose counter starts at a chosen value, lowered and executed.    *)
(***************************************************************************)
PackCounts == {0, 1, 2, 4}

PackWidths == {8, 16, 32, 64}

\* An irregular pattern of bits.
BytePattern == [j \in 1..seedWidth |-> IF (j * j + (j \div 3)) % 3 = 0 THEN 1 ELSE 0]

\* Values, and for each of them values that differ from it in one bit at an
\* element boundary or at the top.
PackValues ==
    LET base == { Zeros(seedWidth), LowBits(seedWidth, 1, seedWidth),
                  ToBits(initialSeed, seedWidth), BytePattern } IN
    base \cup { FlipBit(b, pos) : b \in base, pos \in {8, 16, 32, 64, 127} }

InitPack ==
    \E v \in PackValues, n \in PackCounts, e \in PackWidths :
        /\ n * e <= seedWidth
        /\ InitWith(InputModule(<<GlobalOp(0, globalName, "private", seedWidth, v)>>, 1,
                                [id \in {1} |-> [delta |-> ToBits(5, deltaWidth),
                                                 count |-> n, width |-> e]],
                                [id \in {1} |-> FALSE]),
                    FALSE)

SpecPack == InitPack /\ [][Next]_vars

(***************************************************************************)
(* The lowered program run by several threads: thread t executes the       *)
(* sequence emitted for request t on the one counter.  The load and the    *)
(* store are plain accesses of 128 bits, which the build carries out as    *)
(* accesses of one machine word each.  The build chooses the word size and *)
(* the order of the accesses: a word is stored after the words its new     *)
(* value is computed from have been loaded, and nothing else is fixed.     *)
(* Between two word accesses other threads take steps.                     *)
(***************************************************************************)
\* The requests the threads run: delta 1 with one 64-bit element, delta 5 with
\* no element.
ThreadShapes ==
    { [delta |-> ToBits(1, deltaWidth), count |-> 1, width |-> 64],
      [delta |-> ToBits(5, deltaWidth), count |-> 0, width |-> 8] }

\* A module whose counter starts at 0x7012395 or at 2^128 - 1; the threads
\* run the two shapes in turn.
InitThreads ==
    \E start \in {ToBits(initialSeed, seedWidth), LowBits(seedWidth, 1, seedWidth)},
       k \in 2..MaxRequests :
        InitWith(InputModule(<<GlobalOp(0, globalName, "private", seedWidth, start)>>, k,
                             [id \in 1..k |->
                                 CHOOSE shape \in ThreadShapes :
                                     (shape.count = 1) = (id % 2 = 1)],
                             [id \in 1..k |-> FALSE]),
                 FALSE)

\* The instructions thread t executes.
ThreadProgram(top, t) == OfSite(Program(top), t)

\* The widths of one access to memory: that of a 32-bit target, of a 64-bit
\* target, and of a target that moves the 128 bits at once.
WordWidths == {seedWidth \div 4, seedWidth \div 2, seedWidth}

\* The words of a value accessed width bits at a time (0: the lowest).
WordsOf(width) == 0..(seedWidth \div width - 1)

\* v with word number part, of width bits, taken from w.
WithWord(v, w, part, width) ==
    [j \in 1..Len(v) |-> IF (j - 1) \div width = part THEN w[j] ELSE v[j]]

\* The words that must have been loaded before word part of the sum can be
\* stored: the carry runs from the low words to the high ones.
WordsNeeded(part) == 0..part

\* The values of oldVal, delta and newVal (lines 79-83) when the words loaded
\* so far are old: ops[at] is the load, then the constant and the addition.
UpdateValues(ops, at, e, old) ==
    LET e1 == (ResultOf(ops[at]) :> old) @@ e
        e2 == (ResultOf(ops[at + 1]) :>
                   CHOOSE c \in ExecResults(ops[at + 1], e1, old) : TRUE) @@ e1
    IN (ResultOf(ops[at + 2]) :>
            CHOOSE n \in ExecResults(ops[at + 2], e2, old) : TRUE) @@ e2

\* The threads start: the global holds its initial value.  A thread is at
\* instruction `at`; of the update that starts with the load at `at` it has
\* loaded the words `loaded` into buffer and stored the words `stored`.  All
\* threads run the same build, whose accesses are `word` bits wide.
StartThreads ==
    /\ pass = "success"
    /\ SymbolUsesValid(module)
    /\ TruncationsValid(module)
    /\ pc = 0
    /\ threads = None
    /\ \E word \in WordWidths :
           /\ Cardinality(DOMAIN results) * Cardinality(WordsOf(word)) <= MaxWordAccesses
           /\ threads' = [t \in DOMAIN results |->
                              [at |-> 1, word |-> word, loaded |-> {}, stored |-> {},
                               buffer |-> Zeros(seedWidth)]]
    /\ mem' = module[LookupNearestSymbolFrom(module, globalName)].value
    /\ UNCHANGED <<input, module, ndebug, current, results, pass, pc, env, workers>>

\* Thread t takes its next step.  At the load it carries out the update of
\* lines 79-84 (load, constant, addition, store) one word access at a time:
\* it loads a word it has not loaded, or stores a word whose sum it can
\* compute.  oldVal, delta and newVal have their values once all words are
\* loaded; the update is over once all words are stored.  Of any other kind
\* it executes one whole instruction.
ThreadStep(t) ==
    /\ t \in DOMAIN threads
    /\ \E ops \in {ThreadProgram(module, t)}, at \in {threads[t].at} :
           /\ at <= Len(ops)
           /\ IF ops[at].kind = "memref.load"
              THEN \E part \in WordsOf(threads[t].word) :
                       \/ /\ part \notin threads[t].loaded
                          /\ \E old \in {WithWord(threads[t].buffer, mem, part,
                                                   threads[t].word)} :
                                 /\ threads' = [threads EXCEPT
                                                   ![t].loaded = @ \cup {part},
                                                   ![t].buffer = old]
                                 /\ env' = IF threads[t].loaded \cup {part}
                                                = WordsOf(threads[t].word)
                                           THEN UpdateValues(ops, at, env, old)
                                           ELSE env
                          /\ UNCHANGED mem
                       \/ /\ part \notin threads[t].stored
                          /\ WordsNeeded(part) \subseteq threads[t].loaded
                          /\ \E new \in {ExecStore(ops[at + 3],
                                                    UpdateValues(ops, at, env,
                                                                 threads[t].buffer),
                                                    mem)} :
                                 mem' = WithWord(mem, new, part, threads[t].word)
                          /\ IF threads[t].stored \cup {part} = WordsOf(threads[t].word)
                             THEN /\ env' = (ResultOf(ops[at + 3]) :> <<>>) @@ env
                                  /\ threads' = [threads EXCEPT
                                                    ![t].at = @ + 4,
                                                    ![t].loaded = {},
                                                    ![t].stored = {},
                                                    ![t].buffer = Zeros(seedWidth)]
                             ELSE /\ threads' = [threads EXCEPT ![t].stored = @ \cup {part}]
                                  /\ UNCHANGED env
              ELSE /\ \E v \in ExecResults(ops[at], env, mem) :
                          env' = (ResultOf(ops[at]) :> v) @@ env
                   /\ threads' = [threads EXCEPT ![t].at = @ + 1]
                   /\ UNCHANGED mem
    /\ UNCHANGED <<input, module, ndebug, current, results, pass, pc, workers>>

NextThreads ==
    \/ \E site \in 1..MaxRequests : Legalize(site)
    \/ MatchAndRewrite
    \/ RunOnOperation
    \/ StartThreads
    \/ \E t \in 1..MaxRequests : ThreadStep(t)

SpecThreads == InitThreads /\ [][NextThreads]_vars

(***************************************************************************)
(* Lowerings applied by workers that run side by side: matchAndRewrite     *)
(* holds no lock, so between a worker's lookup (line 59) and the rest of   *)
(* its matchAndRewrite (lines 60-104) other workers take steps.            *)
(***************************************************************************)
\* A variant of EnsureAfterLookup: the definition is created whatever the
\* lookup returned.
EnsureAfterLookup_Always(top, site, found) == <<NewGlobal(site)>> \o top

\* Lines 60-72, entered with the result of the lookup of line 59: if that
\* lookup returned null the definition is created at the start of the block.
EnsureAfterLookup(top, site, found) ==
    IF found THEN top ELSE <<NewGlobal(site)>> \o top

\* The module a worker leaves when its matchAndRewrite returns.
RewrittenAfterLookup(top, site, found) ==
    InsertAndReplace(EnsureAfterLookup(top, site, found), site,
                     InsertionPointAfterGuard, EmitLowering(RequestOf(top, site)))

\* The workers that have looked rng_state up and not yet gone on.
InFlight == {w \in DOMAIN workers : ~workers[w].done}

\* A module without rng_state, or with the definition the lowering creates.
InitParallel ==
    \E pre \in {<<>>, <<GlobalOp(0, globalName, "private", seedWidth,
                                 ToBits(initialSeed, seedWidth))>>},
       k \in 1..MaxRequests, nestFirst \in BOOLEAN :
    \E shapes \in [1..k -> RequestShapes] :
        InitWith(InputModule(pre, k, shapes,
                             [id \in 1..k |-> (id % 2 = 1) = nestFirst]),
                 FALSE)

\* A worker is handed request `site` and runs line 59.  The worker notes what
\* the lookup returned, and whether another worker was in flight at that time.
WorkerLookup(site) ==
    /\ pass = "running"
    /\ site \notin DOMAIN workers
    /\ \E op \in Range(AllOps(module)) : IsIllegal(op) /\ op.site = site
    /\ workers' = (site :> [found |-> LookupNearestSymbolFrom(module, globalName) # 0,
                            overlapped |-> InFlight # {},
                            done |-> FALSE]) @@ workers
    /\ UNCHANGED <<input, module, ndebug, current, results, pass, pc, mem, env, threads>>

\* The worker runs lines 60-104 with what its lookup returned.
WorkerRewrite(site) ==
    /\ pass = "running"
    /\ site \in InFlight
    /\ IF AssertionFires(EnsureAfterLookup(module, site, workers[site].found), ndebug)
       THEN /\ pass' = "aborted"
            /\ UNCHANGED <<module, results, workers>>
       ELSE /\ module' = RewrittenAfterLookup(module, site, workers[site].found)
            /\ results' = [results EXCEPT ![site] = "success"]
            /\ workers' = [workers EXCEPT ![site].done = TRUE]
            /\ pass' = pass
    /\ UNCHANGED <<input, ndebug, current, pc, mem, env, threads>>

NextParallel ==
    \/ \E site \in 1..MaxRequests : WorkerLookup(site)
    \/ \E site \in 1..MaxRequests : WorkerRewrite(site)
    \/ RunOnOperation

SpecParallel == InitParallel /\ [][NextParallel]_vars

(***************************************************************************)
(* Requests whose result is wider than the counter: N*E > 128.             *)
(***************************************************************************)
\* Three elements of 64 bits, three of 48 bits, two of 128 bits.
WideShapes ==
    { [delta |-> ToBits(5, deltaWidth), count |-> 3, width |-> 64],
      [delta |-> ToBits(1, deltaWidth), count |-> 3, width |-> 48],
      [delta |-> LowBits(32, 1, deltaWidth), count |-> 2, width |-> 128] }

InitWide ==
    \E pre \in {<<>>, <<GlobalOp(0, globalName, "private", seedWidth,
                                 ToBits(initialSeed, seedWidth))>>},
       k \in 1..MaxRequests :
    \E shapes \in [1..k -> WideShapes] :
        InitWith(InputModule(pre, k, shapes, [id \in 1..k |-> FALSE]), FALSE)

SpecWide == InitWide /\ [][Next]_vars

(***************************************************************************)
(* Where the lowering puts what it creates: modules that hold other        *)
(* instructions ahead of and after @main, with requests at several         *)
(* nesting depths.                                                         *)
(***************************************************************************)
\* Request req inside `depth` nested regions.
RECURSIVE NestedIn(_, _)
NestedIn(req, depth) ==
    IF depth = 0 THEN req
    ELSE RegionOp(10 * req.site + depth, <<NestedIn(req, depth - 1)>>)

\* What the top-level block holds ahead of @main, and after it.
Ahead ==
    { <<>>,
      <<FuncOp("helper", <<>>)>>,
      <<GlobalOp(0, "other_state", "private", deltaWidth, Zeros(deltaWidth)),
        FuncOp("helper", <<>>)>> }

After == { <<>>, <<FuncOp("tail", <<>>)>> }

\* Two elements of 64 bits, or none.
PlaceShapes == {shape \in RequestShapes : shape.count * shape.width <= seedWidth
                                          /\ shape.width < seedWidth /\ shape.count <= 2}

\* Request id lies (id + offset) mod 3 regions deep in @main.
InitPlace ==
    \E ahead \in Ahead, after \in After, k \in 1..MaxRequests, offset \in 0..2 :
    \E shapes \in [1..k -> PlaceShapes] :
        InitWith(ahead
                 \o << FuncOp("main",
                              [id \in 1..k |->
                                  NestedIn(RequestOp(id, shapes[id].delta, shapes[id].count,
                                                     shapes[id].width),
                                           (id + offset) % 3)]
                              \o <<UserOp(1, 1)>>) >>
                 \o after,
                 FALSE)

SpecPlace == InitPlace /\ [][Next]_vars

(***************************************************************************)
(* Vocabulary of the properties.                                           *)
(***************************************************************************)
\* The definitions named rng_state, in module order.
Definitions(top) ==
    LET Defines(op) == IsSymbol(op) /\ op.name = globalName IN
    SelectSeq(AllOps(top), Defines)

\* The requests the pattern has lowered.
Lowered == {s \in DOMAIN results : results[s] = "success"}

\* What the input module holds under the name rng_state.
InputAbsent == Definitions(input) = <<>>

InputStorage == Len(Definitions(input)) = 1 /\ IsGlobalOp(Definitions(input)[1])

InputNotStorage == Len(Definitions(input)) = 1 /\ ~IsGlobalOp(Definitions(input)[1])

\* The request of the input with this id, and its shape.
InputRequest(site) == RequestOf(input, site)

\* The instruction at this place of the lowered program has executed.
Executed(ref) == ref \in DOMAIN env

\* The number of stores of the program prog that have executed.
StoresDoneIn(prog) ==
    Cardinality({j \in 1..(pc - 1) : prog[j].kind = "memref.store"})

StoresDone == StoresDoneIn(Program(module))

\* The counter's value when the program started.
StartValue == module[LookupNearestSymbolFrom(module, globalName)].value

(***************************************************************************)
(* Reference arithmetic for the properties: a 128-bit number as sixteen    *)
(* digits of 8 bits, least significant first, added with integer           *)
(* arithmetic; the carry out of the last digit is dropped (mod 2^128).     *)
(***************************************************************************)
DigitOf(v, d) ==
    LET bit(b) == IF 8 * (d - 1) + b <= Len(v) THEN v[8 * (d - 1) + b] ELSE 0 IN
    bit(1) + 2 * bit(2) + 4 * bit(3) + 8 * bit(4)
    + 16 * bit(5) + 32 * bit(6) + 64 * bit(7) + 128 * bit(8)

Digits(v) == [d \in 1..16 |-> DigitOf(v, d)]

\* The carry into digit d of x + y: some lower digit overflows and every
\* digit between passes the carry on.
CarryInto(x, y, d) ==
    \E g \in 1..(d - 1) :
        /\ x[g] + y[g] >= 256
        /\ \A q \in (g + 1)..(d - 1) : x[q] + y[q] >= 255

\* (x + y) mod 2^128.  The operands are bound to values before the digits
\* are computed.
DigitsAdd(x, y) ==
    CHOOSE sum \in {[d \in 1..16 |->
                        (xv[d] + yv[d] + (IF CarryInto(xv, yv, d) THEN 1 ELSE 0)) % 256]
                    : xv \in {x}, yv \in {y}} : TRUE

\* The sites of @main in the order their sequences execute.
LoadSites(prog) ==
    LET IsLoad(op) == op.kind = "memref.load"
        loads == SelectSeq(prog, IsLoad) IN
    [j \in 1..Len(loads) |-> loads[j].site]

\* (start + the deltas of the first k requests of order) mod 2^128, as digits.
\* A delta is the unsigned 64-bit attribute of the request in the input.
RECURSIVE SumThrough(_, _, _)
SumThrough(start, order, k) ==
    IF k = 0 THEN Digits(start)
    ELSE DigitsAdd(SumThrough(start, order, k - 1),
                   Digits(InputRequest(order[k]).value))

(***************************************************************************)
(* Properties.                                                             *)
(***************************************************************************)
\* In a module that had no symbol rng_state, once a request is lowered there is
\* exactly one definition rng_state, a memref.global.
C1_OneDefinition ==
    (Lowered # {} /\ InputAbsent) =>
        /\ Len(Definitions(module)) = 1
        /\ IsGlobalOp(Definitions(module)[1])

\* In such a module the first lowering inserts the definition, every later
\* lowering leaves the definitions as they are, and no step removes one.
C1_Step ==
    InputAbsent =>
        /\ \A j \in 1..Len(Definitions(module)) :
               \E k \in 1..Len(Definitions(module')) :
                   Definitions(module')[k] = Definitions(module)[j]
        /\ (Lowered' # Lowered /\ Lowered = {}) =>
               Definitions(module) = <<>> /\ Len(Definitions(module')) = 1
        /\ ~(Lowered' # Lowered /\ Lowered = {}) =>
               Definitions(module') = Definitions(module)

\* C1: after any number K >= 1 of lowerings in a module that initially has no
\* symbol rng_state, the module holds exactly one definition rng_state: the
\* first lowering inserts it, later lowerings find it and insert nothing, and
\* no lowering removes or duplicates it.
C1_Singleton == [](C1_OneDefinition) /\ [][C1_Step]_vars

\* Two requests have been lowered in a module that had no rng_state.
C1_Witness == InputAbsent /\ Cardinality(Lowered) >= 2 /\ pass = "running"

\* C2: executed one after another from the start value V0, the k-th sequence
\* loads (V0 + d1 + ... + d(k-1)) mod 2^128 as its pre-update value, and after
\* k stores the counter holds (V0 + d1 + ... + dk) mod 2^128; sums that reach
\* 2^128 wrap.
C2_ValueThreading ==
    pc >= 1 =>
        \A prog \in {Program(module)} : \A order \in {LoadSites(prog)} :
            /\ \A k \in 1..Len(order) :
                   Executed(Ref(order[k], "oldVal", 0)) =>
                       Digits(env[Ref(order[k], "oldVal", 0)])
                           = SumThrough(StartValue, order, k - 1)
            /\ Digits(mem) = SumThrough(StartValue, order, StoresDoneIn(prog))

\* Two sequences have executed from V0 = 2^128 - 2^64 with deltas 2^64 - 1 and
\* 5: the second sum wrapped, and the counter holds 4.
C2_Witness ==
    /\ pc >= 1
    /\ StoresDone = 2
    /\ StartValue = HighOnes
    /\ InputRequest(1).value = LowBits(deltaWidth, 1, deltaWidth)
    /\ InputRequest(2).value = ToBits(5, deltaWidth)
    /\ env[Ref(2, "oldVal", 0)] = LowBits(seedWidth, 1, seedWidth)
    /\ mem = ToBits(4, seedWidth)

\* The attributes of the definition the lowering creates.
HasSeedAttributes(op) ==
    /\ IsGlobalOp(op)
    /\ op.visibility = "private"
    /\ op.width = seedWidth
    /\ op.value = ToBits(initialSeed, seedWidth)

\* C4 as stated: after K >= 1 lowerings the module holds exactly one definition
\* rng_state, private, 128 bits wide, initial value 0x7012395, whether or not a
\* storage definition rng_state was there before.
C4_AsStated ==
    (Lowered # {} /\ (InputAbsent \/ InputStorage)) =>
        /\ Len(Definitions(module)) = 1
        /\ HasSeedAttributes(Definitions(module)[1])

\* C4, amended: after K >= 1 lowerings the module holds exactly one definition
\* rng_state.  It is private, 128 bits wide and starts at 0x7012395 if the
\* module had no symbol rng_state or had a storage definition with just these
\* attributes; a storage definition that was there before is kept as it was.
C4_OneDefinitionWithAttributes ==
    (Lowered # {} /\ (InputAbsent \/ InputStorage)) =>
        /\ Len(Definitions(module)) = 1
        /\ InputStorage => Definitions(module) = Definitions(input)
        /\ (InputAbsent \/ HasSeedAttributes(Definitions(input)[1])) =>
               HasSeedAttributes(Definitions(module)[1])

\* The pass has succeeded on a module that had no rng_state: the definition it
\* created is there.
C4_Witness ==
    /\ InputAbsent
    /\ pass = "success"
    /\ Cardinality(Lowered) >= 1
    /\ HasSeedAttributes(Definitions(module)[1])

\* The shape of the one request of a packing run, and what it packed.
PackN == InputRequest(1).count

PackE == InputRequest(1).width

Packed(site) == env[Ref(site, "resultTensor", 0)]

\* Elements concatenated most significant element first, as one bit vector
\* (least significant bit first, so the last element comes first).
RECURSIVE Concat(_)
Concat(elements) ==
    IF elements = <<>> THEN <<>> ELSE Concat(Tail(elements)) \o Head(elements)

\* The shift distances of a site's packing instructions, in program order.
ShiftDistances(prog, site) ==
    LET IsDistance(op) == op.site = site /\ op.role = "shiftDistance"
        distances == SelectSeq(prog, IsDistance) IN
    [j \in 1..Len(distances) |-> distances[j].value]

\* C3: for every value and every N in {0,1,2,4}, E in {8,16,32,64} with
\* N*E <= 128, the packing yields N elements of E bits, shifted by (N-1)*E,
\* ..., E, 0 in this order; element j (from 0) is (value >> ((N-1-j)*E)) mod
\* 2^E, and the elements concatenated most significant first are the low N*E
\* bits of the value.
C3_Packing ==
    Executed(Ref(1, "resultTensor", 0)) =>
        /\ Len(Packed(1)) = PackN
        /\ \A j \in 1..PackN :
               /\ Len(Packed(1)[j]) = PackE
               /\ \A b \in 1..PackE :
                      Packed(1)[j][b] = StartValue[(PackN - j) * PackE + b]
        /\ Concat(Packed(1)) = [b \in 1..(PackN * PackE) |-> StartValue[b]]
        /\ ShiftDistances(Program(module), 1)
               = [j \in 1..PackN |-> ToBits((PackN - j) * PackE, seedWidth)]

\* Four elements of 32 bits have been packed from the irregular pattern.
C3_Witness ==
    /\ Executed(Ref(1, "resultTensor", 0))
    /\ PackN = 4 /\ PackE = 32
    /\ StartValue = BytePattern
    /\ Packed(1)[1] # Packed(1)[4]

\* What the packing instructions of a request of n elements of e bits compute
\* from the value v.
PackOf(v, n, e) ==
    LET ops == PackLoop(0, LoopStart(n, e), e, 0) IN
    [j \in 1..(Len(ops) \div 3) |->
        CHOOSE piece \in EvalTruncI(CHOOSE r \in EvalShRUI(v, ops[3 * j - 2].value) : TRUE,
                                    ops[3 * j].width) : TRUE]

\* The values of PackValues that agree with v on the low k bits.
AgreeingWith(v, k) == {v2 \in PackValues : \A b \in 1..k : v2[b] = v[b]}

\* C5: if N*E < 128 the packed output does not depend on the bits of the value
\* at positions >= N*E: every value that agrees with it on the low N*E bits
\* packs to the same elements, and the run ends without an error.
C5_Truncation ==
    (Executed(Ref(1, "resultTensor", 0)) /\ PackN * PackE < seedWidth) =>
        /\ pass = "success"
        /\ \A v2 \in AgreeingWith(StartValue, PackN * PackE) :
               PackOf(v2, PackN, PackE) = Packed(1)

\* Two elements of 32 bits have been packed from a value that another value
\* agrees with on the low 64 bits and differs from above them.
C5_Witness ==
    /\ Executed(Ref(1, "resultTensor", 0))
    /\ PackN = 2 /\ PackE = 32
    /\ \E v2 \in AgreeingWith(StartValue, 64) : v2 # StartValue

\* C6 as stated: if rng_state names something that is no storage definition,
\* the lowering aborts at once: nothing is emitted, the request's result is not
\* replaced (the module stays as it was) and no lowering reports success.
C6_AbortsOnForeignSymbol ==
    InputNotStorage => (module = input /\ Lowered = {})

\* In the lowering's state machine: where request s stands.
Status(s) ==
    IF results[s] = "failure" THEN "Failed"
    ELSE IF results[s] = "success" THEN "Rewritten"
    ELSE IF current = s THEN "Matched"
    ELSE "Unmatched"

\* The predicates below read ops, the instructions of the module (AllOps).
\* The update sequence and the packing of request s are in the module, as
\* emitted for the request of the input.
Emitted(ops, s) ==
    OfSite(ops, s) = EmitLowering(InputRequest(s))

\* Some instruction of request s other than the request itself is in the module.
EmittedSome(ops, s) ==
    \E op \in Range(ops) :
        op.site = s /\ ~IsSymbol(op) /\ op.kind # RequestKind

\* The request is gone and nothing reads its result any more.
Replaced(ops, s) ==
    \A op \in Range(ops) :
        /\ ~(op.kind = RequestKind /\ op.site = s)
        /\ \A j \in 1..Len(op.operands) : op.operands[j] # Ref(s, "request", 0)

\* The request is still there, nothing of it has been emitted, and its uses
\* still read its result.
Unrewritten(ops, s) ==
    /\ ~EmittedSome(ops, s)
    /\ InputRequest(s) \in Range(ops)

C7_States ==
    (InputAbsent \/ InputStorage) =>
        /\ pass \notin {"failure", "aborted"}
        /\ \A ops \in {AllOps(module)} : \A s \in DOMAIN results :
               /\ Status(s) # "Failed"
               /\ Status(s) = "Rewritten" => (Emitted(ops, s) /\ Replaced(ops, s))
               /\ Status(s) # "Rewritten" => Unrewritten(ops, s)
               /\ pass = "success" => Status(s) = "Rewritten"

C7_Step ==
    (InputAbsent \/ InputStorage) =>
        \A s \in DOMAIN results :
            /\ Status(s) = "Unmatched" => Status(s)' \in {"Unmatched", "Matched"}
            /\ Status(s) = "Matched" => Status(s)' \in {"Matched", "Rewritten"}
            /\ Status(s) = "Rewritten" => Status(s)' = "Rewritten"

\* C7: where rng_state is absent or a storage definition, every request goes
\* Unmatched -> Matched -> Rewritten and reports success, Failed is never
\* reached, the pass neither fails nor aborts, and when the pass reports
\* success every request is wholly rewritten (sequence emitted and result
\* replaced); at no time is a request partly rewritten.
C7_Lifecycle == [](C7_States) /\ [][C7_Step]_vars

\* The pass has succeeded on two requests where rng_state was a storage
\* definition before.
C7_Witness ==
    /\ InputStorage
    /\ pass = "success"
    /\ Cardinality(DOMAIN results) >= 2
    /\ \A s \in DOMAIN results : Status(s) = "Rewritten"

\* The instructions of legal kinds that were in the input, in module order.
LegalOfInput(top) ==
    LET Kept(op) == op.site = 0 /\ IsLegal(op) IN SelectSeq(AllOps(top), Kept)

\* Instruction after is instruction before, left as it was: the same in
\* everything, but for operands that read a lowered request's result and now
\* read its replacement.
Untouched(before, after) ==
    /\ [after EXCEPT !.operands = <<>>] = [before EXCEPT !.operands = <<>>]
    /\ Len(after.operands) = Len(before.operands)
    /\ \A j \in 1..Len(before.operands) :
           \/ after.operands[j] = before.operands[j]
           \/ /\ before.operands[j].role = "request"
              /\ after.operands[j] = Ref(before.operands[j].site, "cast", 0)

\* C8: when the pass reports success no get-and-update-state instruction is
\* left and every instruction of a legal kind that was in the input is there as
\* it was; the pass signals failure exactly when the partial conversion failed.
C8_PassResult ==
    /\ pass = "success" =>
           /\ RequestsIn(module) = {}
           /\ \A before \in {LegalOfInput(input)}, after \in {LegalOfInput(module)} :
                  /\ Len(after) = Len(before)
                  /\ \A j \in 1..Len(before) : Untouched(before[j], after[j])
           /\ ~ConversionFailed(module, results)
    /\ pass = "failure" => ConversionFailed(module, results)

\* The pass has succeeded on a module that held a storage definition and an
\* instruction that read a request's result.
C8_Witness ==
    /\ pass = "success"
    /\ InputStorage
    /\ Len(LegalOfInput(input)) = 2
    /\ Cardinality(Lowered) >= 2

\* The first request of @main is delta = 5, N = 2, E = 64 in a fresh module.
Scenario1 ==
    /\ InputAbsent
    /\ InputRequest(1).value = ToBits(5, deltaWidth)
    /\ InputRequest(1).count = 2
    /\ InputRequest(1).width = 64

\* C9: in a fresh module the first request, delta = 5, N = 2, E = 64, returns
\* the pre-update value 0x7012395, packs it as [0, 0x7012395] and leaves the
\* counter at 0x701239A.
C9_FirstRequest ==
    Scenario1 =>
        /\ Executed(Ref(1, "oldVal", 0)) =>
               env[Ref(1, "oldVal", 0)] = ToBits(117515157, seedWidth)
        /\ Executed(Ref(1, "cast", 0)) =>
               env[Ref(1, "cast", 0)] = <<Zeros(64), ToBits(117515157, 64)>>
        /\ (pc >= 1 /\ StoresDone = 1) => mem = ToBits(117515162, seedWidth)

\* The first request's sequence has executed to its end.
C9_Witness ==
    /\ Scenario1
    /\ Executed(Ref(1, "cast", 0))
    /\ StoresDone = 1
    /\ mem = ToBits(117515162, seedWidth)

\* After it, the second request of @main is delta = 0xFFFFFFFF, N = 1, E = 128.
Scenario2 ==
    /\ Scenario1
    /\ 2 \in DOMAIN results
    /\ InputRequest(2).value = LowBits(32, 1, deltaWidth)
    /\ InputRequest(2).count = 1
    /\ InputRequest(2).width = 128

\* 0x701239A + 0xFFFFFFFF = 0x107012399 = 2^32 + 0x7012399.
Sum2 == FlipBit(ToBits(117515161, seedWidth), 32)

\* C10 as stated: the second request, delta = 0xFFFFFFFF, N = 1, E = 128, is
\* lowered with success into a program that runs: it returns the pre-update
\* value 0x701239A as its one 128-bit element and leaves the counter at
\* 0x701239A + 0xFFFFFFFF, without a wrap.
C10_SecondRequest ==
    Scenario2 =>
        /\ results[2] # "failure"
        /\ pass \in {"running", "success"}
        /\ pass = "success" =>
               /\ results[2] = "success"
               /\ SymbolUsesValid(module)
               /\ TruncationsValid(module)
        /\ Executed(Ref(2, "oldVal", 0)) =>
               env[Ref(2, "oldVal", 0)] = ToBits(117515162, seedWidth)
        /\ Executed(Ref(2, "cast", 0)) =>
               env[Ref(2, "cast", 0)] = <<ToBits(117515162, seedWidth)>>
        /\ (pc >= 1 /\ StoresDone = 2) => mem = Sum2

\* The instruction of @main that executed last.
LastExecuted == Program(module)[pc - 1]

\* C11: for a request of N = 0 elements, of any element width, the packing loop
\* runs zero times: get_global, load, constant, addi and store are emitted, no
\* shift and no truncation, and the result is built from no piece.  The
\* lowering reports success, the executed request yields the empty sequence and
\* its store leaves the counter at the loaded value plus delta.
C11_EmptyPacking ==
    \A s \in DOMAIN results : \A req \in {InputRequest(s)} :
        req.count = 0 =>
            /\ \A e \in 1..seedWidth : EmitPack([req EXCEPT !.width = e]) = <<>>
            /\ results[s] # "failure"
            /\ pass = "success" => s \in Lowered
            /\ s \in Lowered =>
                   OfSite(AllOps(module), s) = EmitUpdate(req) \o EmitResult(req, <<>>)
            /\ Executed(Ref(s, "cast", 0)) => env[Ref(s, "cast", 0)] = <<>>
            /\ (pc >= 2 /\ LastExecuted = EmitUpdate(req)[5]) =>
                   Digits(mem) = DigitsAdd(Digits(env[Ref(s, "oldVal", 0)]),
                                           Digits(req.value))

\* A request without elements has been lowered in a fresh module and executed:
\* its result is empty and the counter has moved from 0x7012395 to 0x7012396.
C11_Witness ==
    /\ InputAbsent
    /\ DOMAIN results = {1}
    /\ InputRequest(1).count = 0
    /\ results[1] = "success"
    /\ Executed(Ref(1, "cast", 0))
    /\ env[Ref(1, "cast", 0)] = <<>>
    /\ mem = ToBits(117515158, seedWidth)

\* The threads whose store has executed, those whose store has written a word,
\* and those that have run to the end.
StoredBy == {t \in DOMAIN threads : Executed(Ref(t, "store", 0))}

StoreBegun == StoredBy \cup {t \in DOMAIN threads : threads[t].stored # {}}

Finished(t) == threads[t].at > Len(ThreadProgram(module, t))

\* The kinds of instruction the lowering creates.
PlainKinds ==
    {"memref.global", "memref.get_global", "memref.load", "memref.store",
     "arith.constant", "arith.addi", "arith.shrui", "arith.trunci",
     "tensor.from_elements", "builtin.unrealized_conversion_cast"}

\* (V0 + the deltas of all threads) mod 2^128.
SumOfAll == SumThrough(StartValue, [t \in 1..Cardinality(DOMAIN threads) |-> t],
                       Cardinality(DOMAIN threads))

\* C12: the emitted load/add/store is not atomic.  Every instruction the
\* lowering created is a plain load, store, arithmetic or tensor instruction
\* (no atomic, no lock).  A load that is over before any store has written
\* returns V0; and when the loads of all threads returned V0, every thread
\* returns V0 and stores V0 + its own delta, so that once a store is over the
\* counter holds, word by word, V0 + d of a thread that has stored, and not
\* (V0 + all the deltas) mod 2^128: updates are lost.
C12_LostUpdate ==
    threads # None =>
        /\ \A op \in Range(AllOps(module)) : op.site # 0 => op.kind \in PlainKinds
        /\ StoreBegun = {} =>
               /\ mem = StartValue
               /\ \A t \in DOMAIN threads :
                      /\ Executed(Ref(t, "oldVal", 0))
                             => env[Ref(t, "oldVal", 0)] = StartValue
                      /\ \A part \in threads[t].loaded :
                             StartValue = WithWord(StartValue, threads[t].buffer, part,
                                                   threads[t].word)
        /\ ( /\ StoredBy # {}
             /\ \A t \in DOMAIN threads :
                    Executed(Ref(t, "oldVal", 0)) /\ env[Ref(t, "oldVal", 0)] = StartValue )
           => /\ \A t \in StoreBegun :
                     Digits(env[Ref(t, "newVal", 0)])
                         = DigitsAdd(Digits(StartValue), Digits(InputRequest(t).value))
              /\ \A width \in {threads[t].word : t \in DOMAIN threads} :
                     \A part \in WordsOf(width) : \E t \in StoreBegun :
                         mem = WithWord(mem, env[Ref(t, "newVal", 0)], part, width)
              /\ Digits(mem) # SumOfAll
              /\ \A t \in DOMAIN threads :
                     (Executed(Ref(t, "cast", 0)) /\ InputRequest(t).count = 1) =>
                         env[Ref(t, "cast", 0)]
                             = <<[b \in 1..InputRequest(t).width |-> StartValue[b]]>>

\* Two threads with deltas 1 and 5 have run to the end from 0x7012395: both
\* loaded 0x7012395, thread 1 returned it, and the counter holds 0x701239A.
C12_Witness ==
    /\ DOMAIN threads = {1, 2}
    /\ Finished(1) /\ Finished(2)
    /\ InputRequest(1).value = ToBits(1, deltaWidth)
    /\ InputRequest(2).value = ToBits(5, deltaWidth)
    /\ env[Ref(1, "oldVal", 0)] = ToBits(117515157, seedWidth)
    /\ env[Ref(2, "oldVal", 0)] = ToBits(117515157, seedWidth)
    /\ env[Ref(1, "cast", 0)] = <<ToBits(117515157, 64)>>
    /\ mem = ToBits(117515162, seedWidth)

\* The sequence seq of request s starts get_global, load, delta constant, add,
\* store, and the store writes the sum of the loaded value and the constant.
UpdateInOrder(seq, s) ==
    /\ Len(seq) >= 5
    /\ seq[1].kind = "memref.get_global"
    /\ seq[2].kind = "memref.load" /\ ResultOf(seq[2]) = Ref(s, "oldVal", 0)
    /\ seq[2].operands = <<ResultOf(seq[1])>>
    /\ seq[3].kind = "arith.constant" /\ seq[3].value = DeltaAttr(InputRequest(s).value)
    /\ seq[4].kind = "arith.addi"
    /\ seq[4].operands = <<ResultOf(seq[2]), ResultOf(seq[3])>>
    /\ seq[5].kind = "memref.store"
    /\ seq[5].operands = <<ResultOf(seq[4]), ResultOf(seq[1])>>

\* After the store nothing loads, every shift shifts the loaded value, and
\* every truncation truncates a shift.
PackingReadsLoaded(seq, s) ==
    \A j \in 6..Len(seq) :
        /\ seq[j].kind \notin {"memref.load", "memref.get_global"}
        /\ seq[j].kind = "arith.shrui" => seq[j].operands[1] = Ref(s, "oldVal", 0)
        /\ seq[j].kind = "arith.trunci" =>
               \E i \in 6..(j - 1) :
                   seq[i].kind = "arith.shrui" /\ seq[j].operands = <<ResultOf(seq[i])>>
        /\ seq[j].kind = "tensor.from_elements" =>
               \A i \in 1..Len(seq[j].operands) : seq[j].operands[i].role = "piece"

\* The position of request s among the sequences of program prog.
PositionOf(prog, s) == CHOOSE k \in 1..Len(LoadSites(prog)) : LoadSites(prog)[k] = s

\* C13: the sequence emitted for a request is load, delta constant, add, store
\* in this order, and every shift and truncation of the packing reads the
\* loaded value.  So when the last instruction of an executed request has
\* produced the packed result, the result is made of the bits of the value the
\* counter held before the request's own store (the start value plus the
\* deltas of the sequences that ran before it).
C13_PreUpdateValue ==
    \A ops \in {AllOps(module)} : \A s \in Lowered :
    \A req \in {InputRequest(s)}, seq \in {OfSite(ops, s)} :
        /\ UpdateInOrder(seq, s)
        /\ PackingReadsLoaded(seq, s)
        /\ (pc >= 2 /\ ResultOf(LastExecuted) = Ref(s, "cast", 0)
               /\ req.count * req.width <= seedWidth) =>
               \A prog \in {Program(module)} :
                   /\ Digits(env[Ref(s, "oldVal", 0)])
                          = SumThrough(StartValue, LoadSites(prog), PositionOf(prog, s) - 1)
                   /\ Len(env[Ref(s, "cast", 0)]) = req.count
                   /\ \A j \in 1..req.count : \A b \in 1..req.width :
                          env[Ref(s, "cast", 0)][j][b]
                              = env[Ref(s, "oldVal", 0)][(req.count - j) * req.width + b]

\* A request of four 32-bit elements with delta 2^64 - 1 has executed on a
\* counter that held 2^128 - 2^64: the store wrote 2^128 - 1, and the result
\* is made of the bits of 2^128 - 2^64.
C13_Witness ==
    /\ DOMAIN results = {1}
    /\ 1 \in Lowered
    /\ Executed(Ref(1, "cast", 0))
    /\ InputRequest(1).count = 4
    /\ StartValue = HighOnes
    /\ mem = LowBits(seedWidth, 1, seedWidth)
    /\ env[Ref(1, "cast", 0)]
           = <<LowBits(32, 1, 32), LowBits(32, 1, 32), Zeros(32), Zeros(32)>>

\* Some worker looked rng_state up while another was between its lookup and
\* its insert; the workers that created a definition.
Overlapped == \E w \in DOMAIN workers : workers[w].overlapped

CreatedBy == {w \in DOMAIN workers : workers[w].done /\ ~workers[w].found}

\* C14: the find-or-create is a check-then-act without a lock.  Every worker
\* whose lookup returned 'absent' inserts a definition of its own, so workers
\* whose lookups both ran before either insert leave two definitions named
\* rng_state; when no lookup ran while another worker was between its lookup
\* and its insert (lowerings one at a time) there is at most one.
C14_CheckThenAct ==
    /\ Len(Definitions(module)) = Len(Definitions(input)) + Cardinality(CreatedBy)
    /\ ~Overlapped => Len(Definitions(module)) <= 1
    /\ Len(Definitions(module)) >= 2 =>
           /\ InputAbsent
           /\ Overlapped
           /\ Cardinality(CreatedBy) = Len(Definitions(module))

\* Two workers have finished in a module that had no rng_state, and the module
\* holds two definitions named rng_state.
C14_Witness ==
    /\ InputAbsent
    /\ InFlight = {}
    /\ Cardinality(CreatedBy) = 2
    /\ Len(Definitions(module)) = 2
    /\ Definitions(module)[1] # Definitions(module)[2]

\* The truncations of request s that are in ops, in order.
Truncations(ops, s) ==
    LET IsTrunc(op) == op.site = s /\ op.kind = "arith.trunci" IN SelectSeq(ops, IsTrunc)

\* What the lowering of request s, of shape req, has left in ops: one
\* definition of the counter, load/add/store, then N chunks with the shift
\* amounts (N-1)*E, ..., E, 0, truncated to E bits, and the request replaced.
LoweredAnyShape(ops, s, req) ==
    /\ Len(Definitions(module)) = 1
    /\ IsGlobalOp(Definitions(module)[1])
    /\ UpdateInOrder(OfSite(ops, s), s)
    /\ ShiftDistances(ops, s)
           = [j \in 1..req.count |-> ToBits((req.count - j) * req.width, seedWidth)]
    /\ Len(Truncations(ops, s)) = req.count
    /\ \A j \in 1..req.count : Truncations(ops, s)[j].width = req.width
    /\ Replaced(ops, s)
    /\ OfSite(ops, s)[Len(OfSite(ops, s))].kind = "builtin.unrealized_conversion_cast"

\* Some shift amount of request s in ops is 128 or more.
SomeShiftOutOfRange(ops, s) ==
    \E j \in 1..Len(ShiftDistances(ops, s)) :
        \/ HasHighBits(ShiftDistances(ops, s)[j])
        \/ BitsToNat(ShiftDistances(ops, s)[j]) >= seedWidth

\* C15 as stated: a request with N*E > 128 is lowered like any other: no
\* failure and no abort, the counter is found or created, load/add/store are
\* emitted, then N chunks with the shift amounts (N-1)*E, ..., E, 0, some of
\* them 128 or more; the request is replaced and success is reported.
C15_AsStated ==
    \A ops \in {AllOps(module)} : \A s \in DOMAIN results : \A req \in {InputRequest(s)} :
        req.count * req.width > seedWidth =>
            /\ results[s] # "failure"
            /\ pass \notin {"failure", "aborted"}
            /\ pass = "success" => s \in Lowered
            /\ s \in Lowered =>
                   /\ LoweredAnyShape(ops, s, req)
                   /\ SomeShiftOutOfRange(ops, s)

\* C15: a request with N*E > 128 is lowered like any other: no failure and no
\* abort, the counter is found or created, load/add/store are emitted, then N
\* chunks with the shift amounts (N-1)*E, ..., E, 0, truncated to E bits; the
\* request is replaced and success is reported.  Some shift amount is 128 or
\* more exactly when the greatest one, (N-1)*E, is: three elements of 48 bits
\* are shifted by 96, 48 and 0.
C15_NoShapeCheck ==
    \A ops \in {AllOps(module)} : \A s \in DOMAIN results : \A req \in {InputRequest(s)} :
        req.count * req.width > seedWidth =>
            /\ results[s] # "failure"
            /\ pass \notin {"failure", "aborted"}
            /\ pass = "success" => s \in Lowered
            /\ s \in Lowered =>
                   /\ LoweredAnyShape(ops, s, req)
                   /\ SomeShiftOutOfRange(ops, s)
                          <=> (req.count - 1) * req.width >= seedWidth

\* The pass has succeeded on a request of three 64-bit elements and one of
\* three 48-bit elements: the chunks of the first are shifted by 128, 64 and
\* 0, those of the second by 96, 48 and 0.
C15_Witness ==
    /\ pass = "success"
    /\ {1, 2} \subseteq Lowered
    /\ InputRequest(1).count = 3 /\ InputRequest(1).width = 64
    /\ InputRequest(2).count = 3 /\ InputRequest(2).width = 48
    /\ ShiftDistances(AllOps(module), 1)
           = <<ToBits(128, seedWidth), ToBits(64, seedWidth), ToBits(0, seedWidth)>>
    /\ ShiftDistances(AllOps(module), 2)
           = <<ToBits(96, seedWidth), ToBits(48, seedWidth), ToBits(0, seedWidth)>>

\* The definition has been created: at the start of the module's block, with
\* every instruction that was in the block behind it, in the same order, and
\* those that hold no request as they were.
CreatedFirst ==
    /\ IsGlobalOp(module[1]) /\ module[1].name = globalName
    /\ module[1].site \in Lowered
    /\ Len(Definitions(module)) = 1
    /\ Len(module) = Len(input) + 1
    /\ \A j \in 1..Len(input) :
           /\ module[j + 1].kind = input[j].kind
           /\ module[j + 1].name = input[j].name
           /\ RequestsIn(<<input[j]>>) = {} => module[j + 1] = input[j]

\* The lowering that finds no definition puts the one it creates in front of
\* the block as it is; no other step changes the top level of the module.
C16_Step ==
    IF Lowered = {} /\ Lowered' # {}
    THEN /\ module'[1] = NewGlobal(current)
         /\ Len(module') = Len(module) + 1
         /\ \A j \in 1..Len(module) :
                RequestsIn(<<module[j]>>) = {} => module'[j + 1] = module[j]
    ELSE Len(module') = Len(module) /\ module'[1] = module[1]

\* C16: when a lowering creates the counter definition, the definition becomes
\* the first instruction of the top-level block of the module, ahead of every
\* instruction already there, wherever the request stands in @main and however
\* deep it is nested.
C16_FirstInBlock ==
    /\ []((InputAbsent /\ Lowered # {}) => CreatedFirst)
    /\ [][C16_Step]_vars

\* The definition was created for request 2, which lies two regions deep, in a
\* module whose block started with a global and a function.
C16_Witness ==
    /\ Len(input) >= 3
    /\ IsGlobalOp(input[1])
    /\ module[1] = NewGlobal(2)
    /\ MainBody(input)[2].kind = "scf.execute_region"
    /\ MainBody(input)[2].body[1].kind = "scf.execute_region"
    /\ MainBody(input)[2].body[1].body[1].kind = RequestKind

\* The block without source locations.  The definition the lowering creates
\* carries the location of the request that created it (its field site); the
\* instructions of a request carry that request's location whatever the order.
StripLoc(top) ==
    [j \in 1..Len(top) |->
        IF IsSymbol(top[j]) /\ top[j].site # 0 THEN [top[j] EXCEPT !.site = 0]
        ELSE top[j]]

\* The block with every request replaced, where it stands, by the sequence
\* that its delta, N and E determine, and every use of a request's result
\* reading the cast of that request.
RECURSIVE Expand(_)
Expand(ops) ==
    Flat([j \in 1..Len(ops) |->
             IF ops[j].kind = RequestKind THEN EmitLowering(ops[j])
             ELSE << [ops[j] EXCEPT
                         !.operands = [i \in 1..Len(@) |->
                                          IF @[i].role = "request"
                                          THEN Ref(@[i].site, "cast", 0) ELSE @[i]],
                         !.body = Expand(@)] >>])

\* The requests of the input's @main in program order.
InputOrder ==
    LET IsRequest(op) == op.kind = RequestKind
        requests == SelectSeq(Program(input), IsRequest) IN
    [j \in 1..Len(requests) |-> requests[j].site]

\* C17: whatever the order in which the engine lowered the requests, the
\* module the pass leaves is, up to source locations, the input with every
\* request replaced in place by its sequence, behind one definition rng_state
\* at the start of the block if the input had none.  At run time a call site
\* loads the start value plus the deltas of the requests ahead of it in
\* program order.
C17_OrderIndependent ==
    pass = "success" =>
        /\ StripLoc(module)
               = (IF InputAbsent THEN <<NewGlobal(0)>> ELSE <<>>) \o Expand(input)
        /\ (pc >= 2 /\ LastExecuted.kind = "memref.load") =>
               \A order \in {InputOrder} : \A k \in 1..Len(order) :
                   order[k] = LastExecuted.site =>
                       Digits(env[ResultOf(LastExecuted)])
                           = SumThrough(StartValue, order, k - 1)

\* Request 2 was lowered first (the definition carries its location), and at
\* run time it still loaded what request 1, with delta 5, had stored.
C17_Witness ==
    /\ pass = "success"
    /\ InputAbsent
    /\ DOMAIN results = {1, 2}
    /\ module[1] = NewGlobal(2)
    /\ InputRequest(1).value = ToBits(5, deltaWidth)
    /\ Executed(Ref(2, "cast", 0))
    /\ env[Ref(2, "oldVal", 0)] = ToBits(117515162, seedWidth)

\* The block read back: the definition the lowering created is left out, a
\* run of instructions created for request s stands for that request, and a
\* use of the cast of s for a use of the request's result.
RECURSIVE Skeleton(_)
Skeleton(ops) ==
    LET origins ==
            Flat([j \in 1..Len(ops) |->
                     IF IsSymbol(ops[j]) /\ ops[j].site # 0 THEN <<>>
                     ELSE IF ops[j].site # 0 THEN <<InputRequest(ops[j].site)>>
                     ELSE << [ops[j] EXCEPT
                                 !.operands = [i \in 1..Len(@) |->
                                                  IF @[i].role = "cast"
                                                  THEN Ref(@[i].site, "request", 0)
                                                  ELSE @[i]],
                                 !.body = Skeleton(@)] >>])
    IN Flat([j \in 1..Len(origins) |->
                IF j > 1 /\ origins[j] = origins[j - 1] THEN <<>> ELSE <<origins[j]>>])

\* C18: creating the definition does not move where the lowering emits.  For
\* the request that created the definition as for those that found it, the
\* whole sequence (get_global, load, constant, add, store, packing, result)
\* stands in one run where the request stood, in the request's own block, and
\* none of it at the top level of the module.
C18_OwnPosition ==
    /\ Skeleton(module) = input
    /\ \A j \in 1..Len(module) : module[j].site # 0 => IsSymbol(module[j])
    /\ \A ops \in {AllOps(module)} : \A s \in Lowered :
           OfSite(ops, s) = EmitLowering(InputRequest(s))

\* Request 1, one region deep, created the definition and request 2 found it:
\* the region that held request 1 holds exactly its sequence.
C18_Witness ==
    /\ pass = "success"
    /\ DOMAIN results = {1, 2}
    /\ module[1] = NewGlobal(1)
    /\ MainBody(input)[1].kind = "scf.execute_region"
    /\ MainBody(input)[1].body[1].kind = RequestKind
    /\ MainBody(module)[1].body = EmitLowering(InputRequest(1))

====
